---- MODULE Spec2Model ----
(***************************************************************************)
(* The object expiry and LRU engine of bin/varnishd/cache/cache_expire.c.  *)
(*                                                                         *)
(* Worker threads call EXP_Inject, EXP_Insert, EXP_Touch, EXP_Rearm and    *)
(* EXP_NukeOne; the single exp_thread drains the inbox (exp_inbox) and     *)
(* expires the root of the binary heap (exp_expire).  Every critical       *)
(* section is two steps (take the mutex; body and release), so a held      *)
(* mutex is a visible state.  The tail queues are modelled at the level of *)
(* their link pointers, because objcore.lru_list is one link field shared  *)
(* by the LRU list and the inbox.                                          *)
(*                                                                         *)
(* Time is counted in milliseconds.                                        *)
(***************************************************************************)
EXTENDS Integers, Sequences, FiniteSets, TLC

\* ---------------------------------------------------------------- bounds
NumOC == 3          \* objcores
MaxInsert == 2      \* objcores the workers insert under Spec and FairSpec
MaxTime == 1        \* the clock runs from 0 to MaxTime
MaxHeld == 1        \* references the workers hold on one objcore
MaxCalls == 2        \* EXP_Touch, EXP_Rearm and EXP_NukeOne calls
MaxCallsDontMove == 1 \* the same when the LRU list is LRU_F_DONTMOVE
MaxCallsFair == 1    \* the same under FairSpec
MaxCallsInbox == 3   \* the same under InboxSpec
MaxExpired == 2     \* n_expired is counted up to MaxExpired

\* ------------------------------------------------------- program constants
NULL == 0
BINHEAP_NOIDX == 0
LRU_HEAD == -1      \* the address of lru->lru_head.vtqh_first
INBOX == -2         \* the address of exphdl->inbox.vtqh_first
EXPIRE_NAP == 3141  \* 355./113. seconds
EXPIRE_BUSY == 10   \* 0.01 seconds
EXPIRE_YIELD == 1   \* 1e-3 seconds

OC_F_BUSY == "BUSY"
OC_F_OFFLRU == "OFFLRU"
OC_F_INSERT == "INSERT"
OC_F_MOVE == "MOVE"
OC_F_DYING == "DYING"
LRU_F_DONTMOVE == "DONTMOVE"

OC == 1..NumOC
Heads == {LRU_HEAD, INBOX}
Workers == {"w1"}
EXP_THREAD == "exp_thread"
FREE == "free"

\* The timers the callers hand in: o->exp.t_origin is 1, grace and keep are 0,
\* and o->exp.ttl is one of TTLs, so that exp_when(o) is -1, 1 or 2.
Origins == {1}
TTLs == {-2, 0, 1}
InsertTTLs == {0, 1}

VARIABLES
    flags,          \* oc->flags, a set of OC_F_*
    timer_when,     \* oc->timer_when
    timer_idx,      \* oc->timer_idx, written by object_update
    refcnt,         \* oc->refcnt
    exp,            \* o->exp of the object of each objcore
    oc_state,       \* "new", "inserting" (EXP_Insert/Inject running), "cached"
    held,           \* how many of refcnt the worker side holds
    oh_mtx,         \* oc->objhead->mtx is held by some other thread
    tqh_first,      \* vtqh_first of each head
    tqh_last,       \* vtqh_last of each head: an address
    tqe_next,       \* oc->lru_list.vtqe_next
    tqe_prev,       \* oc->lru_list.vtqe_prev: an address
    lru_mtx,        \* holder of lru->mtx
    exp_mtx,        \* holder of exphdl->mtx
    lru_flags,      \* lru->flags
    n_objcore,      \* lru->n_objcore
    heap,           \* exphdl->heap, root at index 1
    n_expired,      \* VSC_C_main->n_expired
    n_lru_moved,    \* VSC_C_main->n_lru_moved
    n_lru_nuked,    \* VSC_C_main->n_lru_nuked
    now,            \* VTIM_real()
    apc,            \* exp_thread: where it is
    a_oc,           \* exp_thread: oc
    a_flags,        \* exp_inbox: flags
    t,              \* exp_thread: t
    tnext,          \* exp_thread: tnext
    pc,             \* each worker: where it is
    w_op,           \* each worker: the function it is in
    w_oc,           \* each worker: oc
    w_neg,          \* EXP_Rearm: when < 0
    w_ret,          \* each worker: the value its last call returned
    failed,         \* the assertion that stopped the process, or "none"
    budget,         \* calls the workers may still make
    n_deref,        \* history: HSH_DerefObjCore calls of the exp_thread per oc
    n_heapins,      \* history: binheap_insert calls per oc
    n_heapdel,      \* history: binheap_delete calls per oc
    behind,         \* history: per oc mailed as DYING, the mails queued then
    mailed,         \* history: the objcores exp_mail_it queued, not yet taken
    rearm_won       \* history: objcores exp_expire has left to a pending EXP_Rearm

ocVars == <<flags, timer_when, refcnt, exp, oc_state, held, oh_mtx>>
qVars == <<tqh_first, tqh_last, tqe_next, tqe_prev>>
heapVars == <<heap, timer_idx, n_heapins, n_heapdel>>
statVars == <<n_expired, n_lru_moved, n_lru_nuked, n_objcore>>
actorVars == <<apc, a_oc, a_flags, t, tnext>>
workerVars == <<pc, w_op, w_oc, w_neg, w_ret>>
vars == <<ocVars, qVars, heapVars, statVars, actorVars, workerVars,
          lru_mtx, exp_mtx, lru_flags, now, failed, budget, n_deref, behind,
          mailed, rearm_won>>

\* ------------------------------------------------------------ tail queues
\* A queue state: the four pointer fields together.
Q == [first |-> tqh_first, last |-> tqh_last, next |-> tqe_next, prev |-> tqe_prev]

SetQ(q) ==
    /\ tqh_first' = q.first
    /\ tqh_last' = q.last
    /\ tqe_next' = q.next
    /\ tqe_prev' = q.prev

\* *addr = v, where addr is the address of a head's first pointer or of an
\* objcore's next pointer.
Store(q, addr, v) ==
    IF addr \in Heads THEN [q EXCEPT !.first[addr] = v]
    ELSE IF addr \in OC THEN [q EXCEPT !.next[addr] = v]
    ELSE q

VTAILQ_FIRST(q, head) == q.first[head]

VTAILQ_INSERT_TAIL(q, head, elm) ==
    LET q1 == [q EXCEPT !.next[elm] = NULL, !.prev[elm] = q.last[head]]
        q2 == Store(q1, q.last[head], elm)
    IN  [q2 EXCEPT !.last[head] = elm]

VTAILQ_INSERT_HEAD(q, head, elm) ==
    LET f == q.first[head]
        q1 == [q EXCEPT !.next[elm] = f]
        q2 == IF f # NULL THEN [q1 EXCEPT !.prev[f] = elm]
              ELSE [q1 EXCEPT !.last[head] = elm]
    IN  [q2 EXCEPT !.first[head] = elm, !.prev[elm] = head]

VTAILQ_REMOVE(q, head, elm) ==
    LET nx == q.next[elm]
        pv == q.prev[elm]
        q1 == IF nx # NULL THEN [q EXCEPT !.prev[nx] = pv]
              ELSE [q EXCEPT !.last[head] = pv]
    IN  Store(q1, pv, nx)

\* VTAILQ_FOREACH: the elements met from the head along the next pointers.
RECURSIVE Walk(_, _, _)
Walk(q, elm, n) ==
    IF elm = NULL \/ n = 0 THEN <<>>
    ELSE <<elm>> \o Walk(q, q.next[elm], n - 1)

VTAILQ_FOREACH(q, head) == Walk(q, q.first[head], NumOC + 1)

Range(s) == {s[i] : i \in DOMAIN s}

\* elm is linked into the queue: met from the head, or the element the
\* head's last pointer points into.
Linked(q, head, elm) ==
    \/ elm \in Range(VTAILQ_FOREACH(q, head))
    \/ q.last[head] = elm

OnLru(oc) == Linked(Q, LRU_HEAD, oc)
InInbox(oc) == Linked(Q, INBOX, oc)

\* ------------------------------------------------------------ binary heap
object_cmp(tw, a, b) == tw[a] < tw[b]

Swap(h, u, v) == [h EXCEPT ![u] = h[v], ![v] = h[u]]

RECURSIVE binheap_trickleup(_, _, _)
binheap_trickleup(h, tw, u) ==
    IF u = 1 THEN h
    ELSE LET v == u \div 2
         IN  IF object_cmp(tw, h[u], h[v])
             THEN binheap_trickleup(Swap(h, u, v), tw, v)
             ELSE h

RECURSIVE binheap_trickledown(_, _, _)
binheap_trickledown(h, tw, u) ==
    LET l == 2 * u
        r == 2 * u + 1
        c == IF l > Len(h) THEN 0
             ELSE IF r <= Len(h) /\ object_cmp(tw, h[r], h[l]) THEN r ELSE l
    IN  IF c = 0 THEN h
        ELSE IF object_cmp(tw, h[c], h[u])
             THEN binheap_trickledown(Swap(h, u, c), tw, c)
             ELSE h

\* A binheap_reorder that leaves the heap as it is.
binheap_reorder_none(h, tw, idx) == h

binheap_reorder(h, tw, idx) ==
    LET up == binheap_trickleup(h, tw, idx)
    IN  IF up # h THEN up ELSE binheap_trickledown(h, tw, idx)

binheap_insert(h, tw, oc) ==
    binheap_trickleup(Append(h, oc), tw, Len(h) + 1)

binheap_delete(h, tw, idx) ==
    LET n == Len(h)
        cut == SubSeq(h, 1, n - 1)
    IN  IF idx = n THEN cut
        ELSE binheap_reorder([cut EXCEPT ![idx] = h[n]], tw, idx)

binheap_root(h) == IF h = <<>> THEN NULL ELSE h[1]

\* object_update: after a heap operation every element knows its index and a
\* deleted element has BINHEAP_NOIDX.
object_update(h) ==
    [oc \in OC |->
        IF \E i \in DOMAIN h : h[i] = oc
        THEN CHOOSE i \in DOMAIN h : h[i] = oc
        ELSE BINHEAP_NOIDX]

SetHeap(h) ==
    /\ heap' = h
    /\ timer_idx' = object_update(h)

\* ------------------------------------------------------------- exp_when
exp_when(e) == e.t_origin + e.ttl + e.grace + e.keep


\* ------------------------------------------------------------------ Init
\* o->exp of an objcore that has no object.
NoExp == [t_origin |-> 0, ttl |-> -1, grace |-> 0, keep |-> 0]

\* The calls the workers may make.  LRU_F_DONTMOVE is read by EXP_Touch
\* alone, so fewer calls are explored under it.
Budget(lf) == IF LRU_F_DONTMOVE \in lf THEN MaxCallsDontMove ELSE MaxCalls

\* The state when EXP_Init has returned and exp_thread is at the top of its
\* loop, for an LRU list with flags lf and workers that make calls calls.
Start(lf, calls) ==
    /\ flags = [oc \in OC |-> {}]
    /\ timer_when = [oc \in OC |-> 0]
    /\ timer_idx = [oc \in OC |-> BINHEAP_NOIDX]
    /\ refcnt = [oc \in OC |-> 0]
    /\ exp = [oc \in OC |-> NoExp]
    /\ oc_state = [oc \in OC |-> "new"]
    /\ held = [oc \in OC |-> 0]
    /\ oh_mtx = {}
    /\ tqh_first = [h \in Heads |-> NULL]
    /\ tqh_last = [h \in Heads |-> h]
    /\ tqe_next = [oc \in OC |-> NULL]
    /\ tqe_prev = [oc \in OC |-> NULL]
    /\ lru_mtx = FREE
    /\ exp_mtx = FREE
    /\ lru_flags = lf
    /\ n_objcore = 0
    /\ heap = <<>>
    /\ n_expired = 0
    /\ n_lru_moved = 0
    /\ n_lru_nuked = 0
    /\ now = 0
    /\ apc = "top"
    /\ a_oc = NULL
    /\ a_flags = {}
    /\ t = 0
    /\ tnext = 0
    /\ pc = [w \in Workers |-> "idle"]
    /\ w_op = [w \in Workers |-> "none"]
    /\ w_oc = [w \in Workers |-> NULL]
    /\ w_neg = [w \in Workers |-> FALSE]
    /\ w_ret = [w \in Workers |-> 0]
    /\ failed = "none"
    /\ budget = calls
    /\ n_deref = [oc \in OC |-> 0]
    /\ n_heapins = [oc \in OC |-> 0]
    /\ n_heapdel = [oc \in OC |-> 0]
    /\ behind = [oc \in OC |-> {}]
    /\ mailed = {}
    /\ rearm_won = {}

Init == \E lf \in {{}, {LRU_F_DONTMOVE}} : Start(lf, Budget(lf))

\* --------------------------------------------------------------- workers
\* A failed assertion aborts the process: nothing runs after it.
Running == failed = "none"

\* A Lck_Unlock that leaves the mutex with its holder.
Lck_Unlock_never(holder) == holder

\* Lck_Unlock: the mutex held by holder is free again.
Lck_Unlock(holder) == FREE

\* A worker leaves the function it was in.
Leave(w) ==
    /\ pc' = [pc EXCEPT ![w] = "idle"]
    /\ w_op' = [w_op EXCEPT ![w] = "none"]
    /\ w_oc' = [w_oc EXCEPT ![w] = NULL]
    /\ w_neg' = [w_neg EXCEPT ![w] = FALSE]
    /\ w_ret' = [w_ret EXCEPT ![w] = 0]

\* A worker returns a value: it is held in w_ret until Return.
Returns(w, v) ==
    /\ pc' = [pc EXCEPT ![w] = "ret"]
    /\ w_ret' = [w_ret EXCEPT ![w] = v]

\* HSH_DerefObjCore: one reference less; the last one frees the objcore and
\* its object, whose fields read as cleared from then on.  fl are the flags
\* the objcore has at the call.
DropRef(oc, fl) ==
    LET r == refcnt[oc] - 1 IN
    /\ refcnt' = [refcnt EXCEPT ![oc] = r]
    /\ flags' = [flags EXCEPT ![oc] = IF r = 0 THEN {} ELSE fl]
    /\ exp' = [exp EXCEPT ![oc] = IF r = 0 THEN NoExp ELSE @]
    /\ timer_when' = [timer_when EXCEPT ![oc] = IF r = 0 THEN 0 ELSE @]
    /\ oc_state' = [oc_state EXCEPT ![oc] = IF r = 0 THEN "freed" ELSE @]

\* The objcore a fetch hands to EXP_Insert or EXP_Inject is the next new one.
NextNew(oc) ==
    /\ oc <= MaxInsert
    /\ oc_state[oc] = "new"
    /\ \A o \in OC : o < oc => oc_state[o] # "new"

\* The object a fetch has built: its timers, and whether it is still busy.
NewObject(oc) ==
    \E ttl \in InsertTTLs, o \in Origins, busy \in BOOLEAN :
        /\ exp' = [exp EXCEPT ![oc] = [t_origin |-> o, ttl |-> ttl, grace |-> 0, keep |-> 0]]
        /\ flags' = [flags EXCEPT ![oc] = IF busy THEN {OC_F_BUSY} ELSE {}]

\* EXP_Inject up to Lck_Lock(&lru->mtx): the objcore comes with one reference,
\* which the exp_thread inherits.
EXP_Inject_call(w, oc) ==
    /\ Running
    /\ pc[w] = "idle"
    /\ NextNew(oc)
    /\ NewObject(oc)
    /\ refcnt' = [refcnt EXCEPT ![oc] = 1]
    /\ oc_state' = [oc_state EXCEPT ![oc] = "inserting"]
    /\ pc' = [pc EXCEPT ![w] = "insert_lock"]
    /\ w_op' = [w_op EXCEPT ![w] = "Inject"]
    /\ w_oc' = [w_oc EXCEPT ![w] = oc]
    /\ UNCHANGED <<timer_when, held, oh_mtx, qVars, heapVars, statVars, actorVars,
                   w_neg, w_ret, lru_mtx, exp_mtx, lru_flags, now, failed,
                   budget, n_deref, behind, mailed, rearm_won>>

\* EXP_Insert up to Lck_Lock(&lru->mtx): the fetch holds one reference and
\* HSH_Ref takes the one of the exp_thread.
EXP_Insert_call(w, oc) ==
    /\ Running
    /\ pc[w] = "idle"
    /\ NextNew(oc)
    /\ NewObject(oc)
    /\ refcnt' = [refcnt EXCEPT ![oc] = 2]
    /\ held' = [held EXCEPT ![oc] = 1]
    /\ oc_state' = [oc_state EXCEPT ![oc] = "inserting"]
    /\ pc' = [pc EXCEPT ![w] = "insert_lock"]
    /\ w_op' = [w_op EXCEPT ![w] = "Insert"]
    /\ w_oc' = [w_oc EXCEPT ![w] = oc]
    /\ UNCHANGED <<timer_when, oh_mtx, qVars, heapVars, statVars, actorVars,
                   w_neg, w_ret, lru_mtx, exp_mtx, lru_flags, now, failed,
                   budget, n_deref, behind, mailed, rearm_won>>

\* Lck_Lock(&lru->mtx) of a worker: it waits until the mutex is free.
AfterLock(p) ==
    CASE p = "insert_lock" -> "insert_cs"
      [] p = "rearm_lock" -> "rearm_cs"
      [] p = "nuke_lock" -> "nuke_cs"

Lck_Lock_lru(w) ==
    /\ Running
    /\ pc[w] \in {"insert_lock", "rearm_lock", "nuke_lock"}
    /\ lru_mtx = FREE
    /\ lru_mtx' = w
    /\ pc' = [pc EXCEPT ![w] = AfterLock(pc[w])]
    /\ UNCHANGED <<ocVars, qVars, heapVars, statVars, actorVars, w_op, w_oc, w_neg,
                   w_ret, exp_mtx, lru_flags, now, failed, budget, n_deref, behind, mailed, rearm_won>>

\* EXP_Inject and EXP_Insert under lru->mtx, and the store to timer_when
\* that follows the unlock (nothing reads timer_when of an objcore that is
\* being inserted).
EXP_Insert_cs(w) ==
    /\ Running
    /\ pc[w] = "insert_cs"
    /\ n_objcore' = n_objcore + 1
    /\ flags' = [flags EXCEPT ![w_oc[w]] = @ \cup {OC_F_OFFLRU, OC_F_INSERT}]
    /\ lru_mtx' = Lck_Unlock(lru_mtx)
    /\ timer_when' = [timer_when EXCEPT ![w_oc[w]] = exp_when(exp[w_oc[w]])]
    /\ pc' = [pc EXCEPT ![w] = "mail_lock"]
    /\ UNCHANGED <<refcnt, exp, oc_state, held, oh_mtx, qVars, heapVars, n_expired,
                   n_lru_moved, n_lru_nuked, actorVars, w_op, w_oc, w_neg, w_ret,
                   exp_mtx, lru_flags, now, failed, budget, n_deref, behind, mailed, rearm_won>>

\* exp_mail_it: Lck_Lock(&exphdl->mtx).
Lck_Lock_exp(w) ==
    /\ Running
    /\ pc[w] = "mail_lock"
    /\ exp_mtx = FREE
    /\ exp_mtx' = w
    /\ pc' = [pc EXCEPT ![w] = "mail_cs"]
    /\ UNCHANGED <<ocVars, qVars, heapVars, statVars, actorVars, w_op, w_oc, w_neg,
                   w_ret, lru_mtx, lru_flags, now, failed, budget, n_deref, behind, mailed, rearm_won>>

\* exp_mail_it under exphdl->mtx: a DYING objcore goes to the head of the
\* inbox, any other to the tail.
MailAt(q, oc) ==
    IF OC_F_DYING \in flags[oc]
    THEN VTAILQ_INSERT_HEAD(q, INBOX, oc)
    ELSE VTAILQ_INSERT_TAIL(q, INBOX, oc)

exp_mail_it(w) ==
    /\ Running
    /\ pc[w] = "mail_cs"
    /\ LET oc == w_oc[w] IN
        IF OC_F_OFFLRU \notin flags[oc]
        THEN /\ failed' = "exp_mail_it: AN(oc->flags & OC_F_OFFLRU)"
             /\ UNCHANGED <<qVars, exp_mtx, workerVars, oc_state, behind, mailed>>
        ELSE /\ SetQ(MailAt(Q, oc))
             /\ behind' = [behind EXCEPT ![oc] =
                    IF OC_F_DYING \in flags[oc]
                    THEN mailed \ {oc} ELSE {}]
             /\ mailed' = mailed \cup {oc}
             /\ exp_mtx' = Lck_Unlock(exp_mtx)
             /\ IF w_op[w] = "NukeOne"
                THEN /\ pc' = [pc EXCEPT ![w] = "nuke_deref"]
                     /\ UNCHANGED <<w_op, w_oc, w_neg, w_ret, oc_state>>
                ELSE /\ Leave(w)
                     /\ oc_state' = [oc_state EXCEPT ![oc] =
                            IF @ = "inserting" THEN "cached" ELSE @]
             /\ UNCHANGED failed
    /\ UNCHANGED <<flags, timer_when, refcnt, exp, held, oh_mtx, heapVars, statVars,
                   actorVars, lru_mtx, lru_flags, now, budget, n_deref, rearm_won>>

\* A worker may call EXP_Touch and EXP_Rearm on an objcore that EXP_Insert or
\* EXP_Inject has returned from and that the worker side holds a reference on.
Usable(oc) == oc_state[oc] = "cached" /\ held[oc] >= 1

\* An EXP_Touch that does not look at lru->flags.
TouchSkips_trylock(lf, mtx) == mtx # FREE

\* EXP_Touch returns 0 at once: the list is LRU_F_DONTMOVE, or Lck_Trylock
\* fails because lru->mtx is held.
TouchSkips(lf, mtx) == LRU_F_DONTMOVE \in lf \/ mtx # FREE

\* EXP_Touch up to and including Lck_Trylock(&lru->mtx).
EXP_Touch_call(w, oc) ==
    /\ Running
    /\ pc[w] = "idle"
    /\ budget > 0
    /\ Usable(oc)
    /\ budget' = budget - 1
    /\ w_op' = [w_op EXCEPT ![w] = "Touch"]
    /\ w_oc' = [w_oc EXCEPT ![w] = oc]
    /\ IF TouchSkips(lru_flags, lru_mtx)
       THEN /\ Returns(w, 0)
            /\ UNCHANGED lru_mtx
       ELSE /\ lru_mtx' = w
            /\ pc' = [pc EXCEPT ![w] = "touch_cs"]
            /\ UNCHANGED w_ret
    /\ UNCHANGED <<ocVars, qVars, heapVars, statVars, actorVars, w_neg, exp_mtx,
                   lru_flags, now, failed, n_deref, behind, mailed, rearm_won>>

\* An EXP_Touch that moves the objcore whatever its flags are.
TouchMoves_always(oc) == TRUE

\* EXP_Touch under lru->mtx.
TouchMoves(oc) == OC_F_OFFLRU \notin flags[oc]

EXP_Touch_cs(w) ==
    /\ Running
    /\ pc[w] = "touch_cs"
    /\ LET oc == w_oc[w] IN
        IF TouchMoves(oc)
        THEN /\ SetQ(VTAILQ_INSERT_TAIL(VTAILQ_REMOVE(Q, LRU_HEAD, oc), LRU_HEAD, oc))
             /\ n_lru_moved' = n_lru_moved + 1
        ELSE UNCHANGED <<qVars, n_lru_moved>>
    /\ lru_mtx' = Lck_Unlock(lru_mtx)
    /\ Returns(w, 1)
    /\ UNCHANGED <<ocVars, heapVars, n_expired, n_lru_nuked, n_objcore, actorVars,
                   w_op, w_oc, w_neg, exp_mtx, lru_flags, now, failed, budget,
                   n_deref, behind, mailed, rearm_won>>

\* An EXP_Rearm that does not compare when with oc->timer_when.
RearmUnchanged_never(oc, when) == FALSE

\* EXP_Rearm: the wake time has not changed.
RearmUnchanged(oc, when) == timer_when[oc] = when

\* EXP_Rearm up to Lck_Lock(&lru->mtx).  oc is o->objcore, NULL for an
\* object that has none.  The caller has just written the timers of the
\* object; when is computed from them and compared with oc->timer_when.
EXP_Rearm_call(w, oc) ==
    /\ Running
    /\ pc[w] = "idle"
    /\ budget > 0
    /\ budget' = budget - 1
    /\ IF oc = NULL
       THEN UNCHANGED <<exp, workerVars>>
       ELSE /\ Usable(oc)
            /\ \E ttl \in TTLs :
                /\ exp' = [exp EXCEPT ![oc].ttl = ttl]
                /\ LET when == exp_when(exp'[oc]) IN
                    IF RearmUnchanged(oc, when)
                    THEN UNCHANGED workerVars
                    ELSE /\ pc' = [pc EXCEPT ![w] = "rearm_lock"]
                         /\ w_op' = [w_op EXCEPT ![w] = "Rearm"]
                         /\ w_oc' = [w_oc EXCEPT ![w] = oc]
                         /\ w_neg' = [w_neg EXCEPT ![w] = (when < 0)]
                         /\ UNCHANGED w_ret
    /\ UNCHANGED <<flags, timer_when, refcnt, oc_state, held, oh_mtx, qVars,
                   heapVars, statVars, actorVars, lru_mtx, exp_mtx, lru_flags, now,
                   failed, n_deref, behind, mailed, rearm_won>>

\* The action flag EXP_Rearm sets.
RearmFlag(neg) == IF neg THEN OC_F_DYING ELSE OC_F_MOVE

\* EXP_Rearm under lru->mtx.
EXP_Rearm_cs(w) ==
    /\ Running
    /\ pc[w] = "rearm_cs"
    /\ LET oc == w_oc[w]
           f1 == flags[oc] \cup {RearmFlag(w_neg[w])}
       IN  IF OC_F_OFFLRU \in f1
           THEN /\ flags' = [flags EXCEPT ![oc] = f1]
                /\ Leave(w)
                /\ UNCHANGED qVars
           ELSE /\ flags' = [flags EXCEPT ![oc] = f1 \cup {OC_F_OFFLRU}]
                /\ SetQ(VTAILQ_REMOVE(Q, LRU_HEAD, oc))
                /\ pc' = [pc EXCEPT ![w] = "mail_lock"]
                /\ UNCHANGED <<w_op, w_oc, w_neg, w_ret>>
    /\ rearm_won' = IF w_neg[w] THEN rearm_won \ {w_oc[w]} ELSE rearm_won
    /\ lru_mtx' = Lck_Unlock(lru_mtx)
    /\ UNCHANGED <<timer_when, refcnt, exp, oc_state, held, oh_mtx, heapVars,
                   statVars, actorVars, exp_mtx, lru_flags, now, failed, budget,
                   n_deref, behind, mailed>>

\* EXP_NukeOne up to Lck_Lock(&lru->mtx).
EXP_NukeOne_call(w) ==
    /\ Running
    /\ pc[w] = "idle"
    /\ budget > 0
    /\ budget' = budget - 1
    /\ pc' = [pc EXCEPT ![w] = "nuke_lock"]
    /\ w_op' = [w_op EXCEPT ![w] = "NukeOne"]
    /\ UNCHANGED <<ocVars, qVars, heapVars, statVars, actorVars, w_oc, w_neg, w_ret,
                   lru_mtx, exp_mtx, lru_flags, now, failed, n_deref, behind, mailed, rearm_won>>

\* The test EXP_NukeOne makes on one objcore of the list; lk are the
\* objcores whose objhead mutex another thread holds (Lck_Trylock fails).
NukeEligible(oc, lk) ==
    /\ OC_F_BUSY \notin flags[oc]
    /\ ~(refcnt[oc] > 1)
    /\ oc \notin lk
    /\ refcnt[oc] = 1

\* An EXP_NukeOne that takes no reference on the objcore it has picked.
NukeRef_none(r) == r

\* EXP_NukeOne takes a reference on the objcore it has picked.
NukeRef(r) == r + 1

\* The index in scan of the objcore the loop breaks at, 0 when it runs off
\* the end of the list.
NukeIndex(scan, lk) ==
    IF \E i \in DOMAIN scan : NukeEligible(scan[i], lk)
    THEN CHOOSE i \in DOMAIN scan :
            /\ NukeEligible(scan[i], lk)
            /\ \A j \in 1..(i - 1) : ~NukeEligible(scan[j], lk)
    ELSE 0

\* The objcores the loop has looked at when it ends.
NukeSeen(scan, i) == IF i = 0 THEN Range(scan) ELSE {scan[j] : j \in 1..i}

\* EXP_NukeOne under lru->mtx: the whole VTAILQ_FOREACH loop.
EXP_NukeOne_cs(w) ==
    /\ Running
    /\ pc[w] = "nuke_cs"
    /\ LET scan == VTAILQ_FOREACH(Q, LRU_HEAD) IN
       \E lk \in SUBSET {oc \in Range(scan) : OC_F_BUSY \notin flags[oc] /\ ~(refcnt[oc] > 1)} :
        LET i == NukeIndex(scan, lk)
            seen == NukeSeen(scan, i)
        IN  IF \E oc \in seen : oc_state[oc] = "freed"
            THEN /\ failed' = "EXP_NukeOne: CHECK_OBJ_NOTNULL(oc, OBJCORE_MAGIC)"
                 /\ UNCHANGED <<flags, refcnt, oh_mtx, qVars, n_lru_nuked, lru_mtx,
                                workerVars>>
            ELSE IF \E oc \in seen : OC_F_DYING \in flags[oc]
            THEN /\ failed' = "EXP_NukeOne: AZ(oc->flags & OC_F_DYING)"
                 /\ UNCHANGED <<flags, refcnt, oh_mtx, qVars, n_lru_nuked, lru_mtx,
                                workerVars>>
            ELSE /\ oh_mtx' = lk
                 /\ lru_mtx' = Lck_Unlock(lru_mtx)
                 /\ UNCHANGED failed
                 /\ IF i = 0
                    THEN /\ Returns(w, -1)
                         /\ UNCHANGED <<flags, refcnt, qVars, n_lru_nuked, w_op, w_oc,
                                        w_neg>>
                    ELSE /\ flags' = [flags EXCEPT ![scan[i]] = @ \cup {OC_F_DYING, OC_F_OFFLRU}]
                         /\ refcnt' = [refcnt EXCEPT ![scan[i]] = NukeRef(@)]
                         /\ n_lru_nuked' = n_lru_nuked + 1
                         /\ SetQ(VTAILQ_REMOVE(Q, LRU_HEAD, scan[i]))
                         /\ w_oc' = [w_oc EXCEPT ![w] = scan[i]]
                         /\ pc' = [pc EXCEPT ![w] = "mail_lock"]
                         /\ UNCHANGED <<w_op, w_neg, w_ret>>
    /\ UNCHANGED <<timer_when, exp, oc_state, held, heapVars, n_expired, n_lru_moved,
                   n_objcore, actorVars, exp_mtx, lru_flags, now, budget, n_deref,
                   behind, mailed, rearm_won>>

\* EXP_NukeOne after exp_mail_it: HSH_DerefObjCore and return (1).
EXP_NukeOne_deref(w) ==
    /\ Running
    /\ pc[w] = "nuke_deref"
    /\ DropRef(w_oc[w], flags[w_oc[w]])
    /\ Returns(w, 1)
    /\ UNCHANGED <<held, oh_mtx, qVars, heapVars, statVars, actorVars, w_op, w_oc,
                   w_neg, lru_mtx, exp_mtx, lru_flags, now, failed, budget, n_deref,
                   behind, mailed, rearm_won>>

\* The caller has taken the value a call returned.
Return(w) ==
    /\ Running
    /\ pc[w] = "ret"
    /\ Leave(w)
    /\ oh_mtx' = {}
    /\ UNCHANGED <<flags, timer_when, refcnt, exp, oc_state, held, qVars, heapVars,
                   statVars, actorVars, lru_mtx, exp_mtx, lru_flags, now, failed,
                   budget, n_deref, behind, mailed, rearm_won>>

\* ----------------------------------------------------- the rest of varnishd
\* A worker is inside EXP_Touch or EXP_Rearm on oc.
InFlight(oc) ==
    \E w \in Workers : pc[w] # "idle" /\ w_oc[w] = oc /\ w_op[w] \in {"Touch", "Rearm"}

\* A lookup takes a reference on a cached objcore.
HSH_Ref(oc) ==
    /\ Running
    /\ oc_state[oc] = "cached"
    /\ refcnt[oc] >= 1
    /\ held[oc] < MaxHeld
    /\ refcnt' = [refcnt EXCEPT ![oc] = @ + 1]
    /\ held' = [held EXCEPT ![oc] = @ + 1]
    /\ UNCHANGED <<flags, timer_when, exp, oc_state, oh_mtx, qVars, heapVars,
                   statVars, actorVars, workerVars, lru_mtx, exp_mtx, lru_flags, now,
                   failed, budget, n_deref, behind, mailed, rearm_won>>

\* A worker drops a reference it holds (not the one a running call uses).
HSH_DerefObjCore(oc) ==
    /\ Running
    /\ oc_state[oc] = "cached"
    /\ held[oc] >= 1
    /\ held[oc] > 1 \/ ~InFlight(oc)
    /\ DropRef(oc, flags[oc])
    /\ held' = [held EXCEPT ![oc] = @ - 1]
    /\ UNCHANGED <<oh_mtx, qVars, heapVars, statVars, actorVars, workerVars, lru_mtx,
                   exp_mtx, lru_flags, now, failed, budget, n_deref, behind, mailed, rearm_won>>

\* The fetch has filled the object: OC_F_BUSY is cleared.
HSH_Unbusy(oc) ==
    /\ Running
    /\ oc_state[oc] = "cached"
    /\ OC_F_BUSY \in flags[oc]
    /\ flags' = [flags EXCEPT ![oc] = @ \ {OC_F_BUSY}]
    /\ UNCHANGED <<timer_when, refcnt, exp, oc_state, held, oh_mtx, qVars, heapVars,
                   statVars, actorVars, workerVars, lru_mtx, exp_mtx, lru_flags, now,
                   failed, budget, n_deref, behind, mailed, rearm_won>>

\* The clock advances.
Tick ==
    /\ Running
    /\ now < MaxTime
    /\ now' = now + 1
    /\ UNCHANGED <<ocVars, qVars, heapVars, statVars, actorVars, workerVars, lru_mtx,
                   exp_mtx, lru_flags, failed, budget, n_deref, behind, mailed, rearm_won>>

\* ------------------------------------------------------------ exp_thread
\* exp_thread: Lck_Lock(&ep->mtx) at the top of the loop.
exp_thread_lock ==
    /\ Running
    /\ apc = "top"
    /\ exp_mtx = FREE
    /\ exp_mtx' = EXP_THREAD
    /\ apc' = "locked"
    /\ UNCHANGED <<ocVars, qVars, heapVars, statVars, a_oc, a_flags, t, tnext,
                   workerVars, lru_mtx, lru_flags, now, failed, budget, n_deref,
                   behind, mailed, rearm_won>>

\* An exp_thread that waits whenever the inbox is empty.
ThreadWaits_always(tn, tm) == TRUE

\* exp_thread: "else if (tnext > t)".
ThreadWaits(tn, tm) == tn > tm

\* exp_thread under ep->mtx: detach the first mail, or wait on the condition
\* variable when tnext > t, or go on; then Lck_Unlock and t = VTIM_real().
exp_thread_take ==
    /\ Running
    /\ apc = "locked"
    /\ LET oc == VTAILQ_FIRST(Q, INBOX) IN
        IF oc # NULL
        THEN /\ SetQ(VTAILQ_REMOVE(Q, INBOX, oc))
             /\ behind' = [behind EXCEPT ![oc] = {}]
             /\ mailed' = mailed \ {oc}
             /\ tnext' = 0
             /\ a_oc' = oc
             /\ t' = now
             /\ apc' = "inbox_lock"
        ELSE /\ a_oc' = NULL
             /\ UNCHANGED <<qVars, behind, mailed, tnext>>
             /\ IF ThreadWaits(tnext, t)
                THEN apc' = "wait" /\ UNCHANGED t
                ELSE apc' = "expire" /\ t' = now
    /\ exp_mtx' = Lck_Unlock(exp_mtx)
    /\ UNCHANGED <<ocVars, heapVars, statVars, a_flags, workerVars, lru_mtx,
                   lru_flags, now, failed, budget, n_deref, rearm_won>>

\* Lck_CondWait returns (signalled, timed out or woken spuriously) with the
\* mutex taken again; then Lck_Unlock and t = VTIM_real().
exp_thread_wake ==
    /\ Running
    /\ apc = "wait"
    /\ exp_mtx = FREE
    /\ t' = now
    /\ apc' = "expire"
    /\ UNCHANGED <<ocVars, qVars, heapVars, statVars, a_oc, a_flags, tnext,
                   workerVars, lru_mtx, exp_mtx, lru_flags, now, failed, budget,
                   n_deref, behind, mailed, rearm_won>>

\* Lck_Lock(&lru->mtx) of exp_inbox and of exp_expire.
exp_thread_lock_lru ==
    /\ Running
    /\ apc \in {"inbox_lock", "expire_lock"}
    /\ lru_mtx = FREE
    /\ lru_mtx' = EXP_THREAD
    /\ apc' = (IF apc = "inbox_lock" THEN "inbox_cs" ELSE "expire_cs")
    /\ UNCHANGED <<ocVars, qVars, heapVars, statVars, a_oc, a_flags, t, tnext,
                   workerVars, exp_mtx, lru_flags, now, failed, budget, n_deref,
                   behind, mailed, rearm_won>>

\* The flags exp_inbox leaves on the objcore.
InboxCleared(f) == f \ {OC_F_INSERT, OC_F_MOVE, OC_F_OFFLRU}

\* exp_inbox under lru->mtx.
exp_inbox_cs ==
    /\ Running
    /\ apc = "inbox_cs"
    /\ IF oc_state[a_oc] = "freed"
       THEN /\ failed' = "exp_inbox: CHECK_OBJ_NOTNULL(oc, OBJCORE_MAGIC)"
            /\ UNCHANGED <<flags, qVars, lru_mtx, apc, a_flags>>
       ELSE IF OC_F_OFFLRU \notin flags[a_oc]
       THEN /\ failed' = "exp_inbox: AN(flags & OC_F_OFFLRU)"
            /\ UNCHANGED <<flags, qVars, lru_mtx, apc, a_flags>>
       ELSE /\ a_flags' = flags[a_oc]
            /\ flags' = [flags EXCEPT ![a_oc] = InboxCleared(@)]
            /\ IF OC_F_DYING \notin flags[a_oc]
               THEN SetQ(VTAILQ_INSERT_TAIL(Q, LRU_HEAD, a_oc))
               ELSE UNCHANGED qVars
            /\ lru_mtx' = Lck_Unlock(lru_mtx)
            /\ apc' = "inbox_heap"
            /\ UNCHANGED failed
    /\ UNCHANGED <<timer_when, refcnt, exp, oc_state, held, oh_mtx, heapVars,
                   statVars, a_oc, t, tnext, workerVars, exp_mtx, lru_flags, now,
                   budget, n_deref, behind, mailed, rearm_won>>

\* exp_inbox finds the objcore in the heap where it asserts that it is.
InboxInHeap(oc) == timer_idx[oc] # BINHEAP_NOIDX

\* exp_inbox after Lck_Unlock(&lru->mtx).
exp_inbox_heap ==
    /\ Running
    /\ apc = "inbox_heap"
    /\ LET oc == a_oc
           tw == IF OC_F_MOVE \in a_flags
                 THEN [timer_when EXCEPT ![oc] = exp_when(exp[oc])]
                 ELSE timer_when
       IN  CASE OC_F_DYING \in a_flags ->
                    IF ~InboxInHeap(oc)
                    THEN /\ failed' = "exp_inbox: assert(oc->timer_idx != BINHEAP_NOIDX)"
                         /\ UNCHANGED <<flags, timer_when, refcnt, exp, oc_state,
                                        heapVars, n_deref, apc, a_oc>>
                    ELSE /\ SetHeap(binheap_delete(heap, timer_when, timer_idx[oc]))
                         /\ n_heapdel' = [n_heapdel EXCEPT ![oc] = @ + 1]
                         /\ DropRef(oc, flags[oc])
                         /\ n_deref' = [n_deref EXCEPT ![oc] = @ + 1]
                         /\ apc' = "top"
                         /\ a_oc' = NULL
                         /\ UNCHANGED <<n_heapins, failed>>
             [] OC_F_DYING \notin a_flags /\ OC_F_INSERT \in a_flags ->
                    IF timer_idx[oc] # BINHEAP_NOIDX
                    THEN /\ failed' = "exp_inbox: assert(oc->timer_idx == BINHEAP_NOIDX)"
                         /\ UNCHANGED <<flags, timer_when, refcnt, exp, oc_state,
                                        heapVars, n_deref, apc, a_oc>>
                    ELSE /\ timer_when' = tw
                         /\ SetHeap(binheap_insert(heap, tw, oc))
                         /\ n_heapins' = [n_heapins EXCEPT ![oc] = @ + 1]
                         /\ apc' = "top"
                         /\ a_oc' = NULL
                         /\ UNCHANGED <<flags, refcnt, exp, oc_state, n_heapdel,
                                        n_deref, failed>>
             [] OC_F_DYING \notin a_flags /\ OC_F_INSERT \notin a_flags
                    /\ OC_F_MOVE \in a_flags ->
                    IF ~InboxInHeap(oc)
                    THEN /\ failed' = "exp_inbox: assert(oc->timer_idx != BINHEAP_NOIDX)"
                         /\ UNCHANGED <<flags, timer_when, refcnt, exp, oc_state,
                                        heapVars, n_deref, apc, a_oc>>
                    ELSE /\ timer_when' = tw
                         /\ SetHeap(binheap_reorder(heap, tw, timer_idx[oc]))
                         /\ apc' = "top"
                         /\ a_oc' = NULL
                         /\ UNCHANGED <<flags, refcnt, exp, oc_state, n_heapins,
                                        n_heapdel, n_deref, failed>>
             [] OTHER ->
                    /\ failed' = "exp_inbox: WRONG(Objcore state wrong in inbox)"
                    /\ UNCHANGED <<flags, timer_when, refcnt, exp, oc_state,
                                   heapVars, n_deref, apc, a_oc>>
    /\ a_flags' = {}
    /\ rearm_won' = rearm_won \ {a_oc}
    /\ UNCHANGED <<held, oh_mtx, qVars, statVars, t, tnext, workerVars, lru_mtx,
                   exp_mtx, lru_flags, now, budget, behind, mailed>>

\* wrk->stats.n_expired++, counted up to MaxExpired: a value of MaxExpired
\* stands for MaxExpired or more.
Count_none(n) == n

Count(n) == IF n < MaxExpired THEN n + 1 ELSE n

\* An exp_expire that does not look at the wake time of the root.
ExpireReady_always(oc, tm) == TRUE

\* exp_expire: "Ready ?"
ExpireReady(oc, tm) == ~(timer_when[oc] > tm)

\* An exp_expire that does not look at OC_F_BUSY.
ExpireBusy_never(oc) == FALSE

\* exp_expire: the objcore is still being fetched.
ExpireBusy(oc) == OC_F_BUSY \in flags[oc]

\* exp_expire up to Lck_Lock(&lru->mtx).
exp_expire ==
    /\ Running
    /\ apc = "expire"
    /\ LET oc == binheap_root(heap) IN
        IF oc = NULL
        THEN /\ tnext' = t + EXPIRE_NAP
             /\ apc' = "top"
             /\ UNCHANGED <<a_oc, n_expired, failed>>
        ELSE IF oc_state[oc] = "freed"
        THEN /\ failed' = "exp_expire: CHECK_OBJ_NOTNULL(oc, OBJCORE_MAGIC)"
             /\ UNCHANGED <<a_oc, n_expired, tnext, apc>>
        ELSE IF ~ExpireReady(oc, t)
        THEN /\ tnext' = timer_when[oc]
             /\ apc' = "top"
             /\ UNCHANGED <<a_oc, n_expired, failed>>
        ELSE IF ExpireBusy(oc)
        THEN /\ tnext' = t + EXPIRE_BUSY
             /\ apc' = "top"
             /\ UNCHANGED <<a_oc, n_expired, failed>>
        ELSE /\ n_expired' = Count(n_expired)
             /\ a_oc' = oc
             /\ apc' = "expire_lock"
             /\ UNCHANGED <<tnext, failed>>
    /\ UNCHANGED <<ocVars, qVars, heapVars, n_lru_moved, n_lru_nuked, n_objcore,
                   a_flags, t, workerVars, lru_mtx, exp_mtx, lru_flags, now,
                   budget, n_deref, behind, mailed, rearm_won>>

\* exp_expire finds that an EXP_Rearm with a wake time that is not negative
\* has taken oc off the LRU list before it and that nothing has marked oc
\* OC_F_DYING.
RearmWon(oc) ==
    /\ OC_F_OFFLRU \in flags[oc]
    /\ OC_F_MOVE \in flags[oc]
    /\ OC_F_DYING \notin flags[oc]

\* exp_expire under lru->mtx and, when it owns the objcore, the removal from
\* the heap and the HSH_DerefObjCore that follow the unlock.
exp_expire_cs ==
    /\ Running
    /\ apc = "expire_cs"
    /\ LET oc == a_oc IN
        IF OC_F_OFFLRU \in flags[oc]
        THEN /\ flags' = [flags EXCEPT ![oc] = @ \cup {OC_F_DYING}]
             /\ tnext' = t + EXPIRE_YIELD
             /\ UNCHANGED <<qVars, timer_when, refcnt, exp, oc_state, heapVars,
                            n_deref, failed>>
        ELSE /\ SetQ(VTAILQ_REMOVE(Q, LRU_HEAD, oc))
             /\ IF timer_idx[oc] = BINHEAP_NOIDX
                THEN /\ failed' = "exp_expire: assert(oc->timer_idx != BINHEAP_NOIDX)"
                     /\ flags' = [flags EXCEPT ![oc] = @ \cup {OC_F_DYING, OC_F_OFFLRU}]
                     /\ UNCHANGED <<timer_when, refcnt, exp, oc_state, heapVars,
                                    n_deref, tnext>>
                ELSE /\ SetHeap(binheap_delete(heap, timer_when, timer_idx[oc]))
                     /\ n_heapdel' = [n_heapdel EXCEPT ![oc] = @ + 1]
                     /\ DropRef(oc, flags[oc] \cup {OC_F_DYING, OC_F_OFFLRU})
                     /\ n_deref' = [n_deref EXCEPT ![oc] = @ + 1]
                     /\ tnext' = 0
                     /\ UNCHANGED <<n_heapins, failed>>
    /\ rearm_won' = IF RearmWon(a_oc) THEN rearm_won \cup {a_oc} ELSE rearm_won
    /\ lru_mtx' = Lck_Unlock(lru_mtx)
    /\ apc' = "top"
    /\ a_oc' = NULL
    /\ UNCHANGED <<held, oh_mtx, statVars, a_flags, t, workerVars, exp_mtx,
                   lru_flags, now, budget, behind, mailed>>

\* ------------------------------------------------------------------ Next
Worker(w) ==
    \/ \E oc \in OC : EXP_Inject_call(w, oc)
    \/ \E oc \in OC : EXP_Insert_call(w, oc)
    \/ Lck_Lock_lru(w)
    \/ EXP_Insert_cs(w)
    \/ Lck_Lock_exp(w)
    \/ exp_mail_it(w)
    \/ \E oc \in OC : EXP_Touch_call(w, oc)
    \/ EXP_Touch_cs(w)
    \/ \E oc \in OC \cup {NULL} : EXP_Rearm_call(w, oc)
    \/ EXP_Rearm_cs(w)
    \/ EXP_NukeOne_call(w)
    \/ EXP_NukeOne_cs(w)
    \/ EXP_NukeOne_deref(w)
    \/ Return(w)

Varnishd ==
    \/ \E oc \in OC : HSH_Ref(oc)
    \/ \E oc \in OC : HSH_DerefObjCore(oc)
    \/ \E oc \in OC : HSH_Unbusy(oc)
    \/ Tick

exp_thread ==
    \/ exp_thread_lock
    \/ exp_thread_take
    \/ exp_thread_wake
    \/ exp_thread_lock_lru
    \/ exp_inbox_cs
    \/ exp_inbox_heap
    \/ exp_expire
    \/ exp_expire_cs

Next ==
    \/ \E w \in Workers : Worker(w)
    \/ Varnishd
    \/ exp_thread

Spec == Init /\ [][Next]_vars

\* ------------------------------------------------------------- InboxSpec
\* A later state of the same program: objcores 1 and 2 have been inserted
\* with EXP_Insert and exp_thread has put them in the heap and on the LRU
\* list, and objcore 3 has been inserted and its mail waits in the inbox;
\* objcore 2 is due.
\* From here the workers call EXP_Touch, EXP_Rearm and EXP_NukeOne and drop
\* their references.
InboxInit ==
    /\ flags = [oc \in OC |-> IF oc = 3 THEN {OC_F_OFFLRU, OC_F_INSERT} ELSE {}]
    /\ exp = [oc \in OC |-> [t_origin |-> 1, ttl |-> IF oc = 2 THEN 0 ELSE 1,
                              grace |-> 0, keep |-> 0]]
    /\ timer_when = [oc \in OC |-> IF oc = 2 THEN 1 ELSE 2]
    /\ timer_idx = [oc \in OC |-> CASE oc = 1 -> 2 [] oc = 2 -> 1 [] oc = 3 -> BINHEAP_NOIDX]
    /\ heap = <<2, 1>>
    /\ refcnt = [oc \in OC |-> 2]
    /\ held = [oc \in OC |-> 1]
    /\ oc_state = [oc \in OC |-> "cached"]
    /\ oh_mtx = {}
    /\ tqh_first = [h \in Heads |-> IF h = LRU_HEAD THEN 1 ELSE 3]
    /\ tqh_last = [h \in Heads |-> IF h = LRU_HEAD THEN 2 ELSE 3]
    /\ tqe_next = [oc \in OC |-> IF oc = 1 THEN 2 ELSE NULL]
    /\ tqe_prev = [oc \in OC |-> CASE oc = 1 -> LRU_HEAD [] oc = 2 -> 1 [] oc = 3 -> INBOX]
    /\ lru_mtx = FREE
    /\ exp_mtx = FREE
    /\ lru_flags = {}
    /\ n_objcore = 3
    /\ n_expired = 0
    /\ n_lru_moved = 0
    /\ n_lru_nuked = 0
    /\ now = 1
    /\ apc = "top"
    /\ a_oc = NULL
    /\ a_flags = {}
    /\ t = 1
    /\ tnext = 0
    /\ pc = [w \in Workers |-> "idle"]
    /\ w_op = [w \in Workers |-> "none"]
    /\ w_oc = [w \in Workers |-> NULL]
    /\ w_neg = [w \in Workers |-> FALSE]
    /\ w_ret = [w \in Workers |-> 0]
    /\ failed = "none"
    /\ budget = MaxCallsInbox
    /\ n_deref = [oc \in OC |-> 0]
    /\ n_heapins = [oc \in OC |-> IF oc = 3 THEN 0 ELSE 1]
    /\ n_heapdel = [oc \in OC |-> 0]
    /\ behind = [oc \in OC |-> {}]
    /\ mailed = {3}
    /\ rearm_won = {}

InboxWorker(w) ==
    \/ Lck_Lock_lru(w)
    \/ Lck_Lock_exp(w)
    \/ exp_mail_it(w)
    \/ \E oc \in OC : EXP_Touch_call(w, oc)
    \/ EXP_Touch_cs(w)
    \/ \E oc \in OC \cup {NULL} : EXP_Rearm_call(w, oc)
    \/ EXP_Rearm_cs(w)
    \/ EXP_NukeOne_call(w)
    \/ EXP_NukeOne_cs(w)
    \/ EXP_NukeOne_deref(w)
    \/ Return(w)

InboxNext ==
    \/ \E w \in Workers : InboxWorker(w)
    \/ \E oc \in OC : HSH_DerefObjCore(oc)
    \/ exp_thread

InboxSpec == InboxInit /\ [][InboxNext]_vars

\* ---------------------------------------------------------------- claims
\* The objcore has been handed to the expiry engine and has not been freed.
Managed(oc) == oc_state[oc] = "cached" \/ OC_F_INSERT \in flags[oc]

\* C1: every objcore the engine manages has OC_F_OFFLRU set exactly when it
\* is not on the LRU list, at every point where lru->mtx is released, also
\* after exp_inbox has handled a mail flagged OC_F_DYING.
C1_OffLruIffNotOnLru ==
    \A oc \in OC : Managed(oc) => (OC_F_OFFLRU \in flags[oc] <=> ~OnLru(oc))

\* exp_inbox has handled a DYING mail of an objcore that a worker still
\* holds a reference on, so that the objcore outlives the mail.
C1_DyingMailHandled ==
    /\ apc = "inbox_heap"
    /\ OC_F_DYING \in a_flags
    /\ held[a_oc] >= 1
    /\ ~OnLru(a_oc)

\* C2: no objcore is on the LRU list and in the inbox at once, and no
\* objcore is met twice when the inbox is walked.
C2_OneContainer ==
    LET mail == VTAILQ_FOREACH(Q, INBOX) IN
    /\ \A oc \in OC : ~(OnLru(oc) /\ InInbox(oc))
    /\ \A i, j \in DOMAIN mail : i # j => mail[i] # mail[j]

\* The action flags a mail can carry.
ActionFlags == {OC_F_INSERT, OC_F_MOVE, OC_F_DYING}

\* C3: an objcore that waits in the inbox has OC_F_OFFLRU set and carries
\* exactly one of OC_F_INSERT, OC_F_MOVE and OC_F_DYING.
C3_ExactlyOneAction ==
    \A oc \in mailed :
        /\ OC_F_OFFLRU \in flags[oc]
        /\ Cardinality(flags[oc] \cap ActionFlags) = 1

\* A mail waits in the inbox with OC_F_INSERT and OC_F_MOVE both set.
C3_InsertAndMove ==
    \E oc \in mailed : {OC_F_INSERT, OC_F_MOVE} \subseteq flags[oc]

\* The exp_thread is on its way to the heap with oc: a worker is about to
\* mail it, it waits in the inbox, or exp_inbox is handling it.
OnItsWay(oc) ==
    \/ oc \in mailed
    \/ a_oc = oc /\ apc \in {"inbox_lock", "inbox_cs", "inbox_heap"}
    \/ \E w \in Workers : w_oc[w] = oc /\ pc[w] \in {"insert_cs", "mail_lock", "mail_cs"}

C5_DyingMailInHeap ==
    (apc = "inbox_heap" /\ OC_F_DYING \in a_flags) => timer_idx[a_oc] # BINHEAP_NOIDX

\* C6: when an EXP_Rearm with a wake time that is not negative took the LRU
\* mutex before exp_expire, exp_expire backs off and the pending mail leaves
\* the objcore in the heap at its new wake time, its reference not dropped.
C6_RearmWins ==
    [][(apc = "inbox_heap" /\ a_oc \in rearm_won /\ apc' # apc) =>
            /\ failed' = "none"
            /\ timer_idx'[a_oc] # BINHEAP_NOIDX
            /\ timer_when'[a_oc] = exp_when(exp[a_oc])
            /\ n_deref'[a_oc] = n_deref[a_oc]]_vars

\* C7: when exp_expire removes an objcore from the heap and drops its
\* reference, the objcore is the root of the heap and its timer_when is not
\* after the time exp_thread has sampled, which is not after the clock.
C7_MonotoneExpiry ==
    [][(apc = "expire_cs" /\ n_deref'[a_oc] > n_deref[a_oc]) =>
            /\ binheap_root(heap) = a_oc
            /\ timer_when[a_oc] <= t
            /\ t <= now
            /\ \A oc \in Range(heap) : timer_when[a_oc] <= timer_when[oc]]_vars

\* exp_expire has retired the root of a heap of two objcores, and no worker
\* has called EXP_Rearm or EXP_NukeOne.
C7_RootRetired ==
    \E oc \in OC :
        /\ n_deref[oc] = 1
        /\ {OC_F_DYING, OC_F_OFFLRU} \subseteq flags[oc]
        /\ timer_idx[oc] = BINHEAP_NOIDX
        /\ heap # <<>>
        /\ budget = Budget(lru_flags)
        /\ n_expired = 1

\* A worker goes on with the call it is in.
WorkerStep(w) ==
    \/ Lck_Lock_lru(w)
    \/ EXP_Insert_cs(w)
    \/ Lck_Lock_exp(w)
    \/ exp_mail_it(w)
    \/ EXP_Touch_cs(w)
    \/ EXP_Rearm_cs(w)
    \/ EXP_NukeOne_cs(w)
    \/ EXP_NukeOne_deref(w)
    \/ Return(w)

\* The exp_thread is scheduled fairly, a worker that waits for a mutex gets
\* it in the end, and every fetch ends.
FairInit == Start({}, MaxCallsFair)

FairSpec ==
    /\ FairInit
    /\ [][Next]_vars
    /\ WF_vars(exp_thread)
    /\ \A w \in Workers : SF_vars(WorkerStep(w))
    /\ WF_vars(\E oc \in OC : HSH_Unbusy(oc))

\* A worker is in an EXP_Rearm of oc that changes its wake time.
Rearming(oc) == \E w \in Workers : w_op[w] = "Rearm" /\ w_oc[w] = oc

\* oc is in the heap, not busy and due.
Due(oc) ==
    /\ timer_idx[oc] # BINHEAP_NOIDX
    /\ OC_F_BUSY \notin flags[oc]
    /\ timer_when[oc] <= now
    /\ ~Rearming(oc)

\* oc is out of the heap and off the LRU list and the exp_thread has dropped
\* its reference.
Retired(oc) ==
    /\ timer_idx[oc] = BINHEAP_NOIDX
    /\ ~OnLru(oc)
    /\ n_deref[oc] = 1

\* C8: under fair scheduling an objcore that is in the heap, not busy and
\* due is retired in the end, unless it is rearmed before that.
C8_NotMissed ==
    \A oc \in OC : Due(oc) ~> (Retired(oc) \/ Rearming(oc) \/ timer_when[oc] > now)

\* C9: while an objcore that was mailed with OC_F_DYING set waits in the
\* inbox, every mail that was queued when it was mailed waits there too:
\* exp_thread takes the OC_F_DYING mail before any of them.
C9_DyingFirst ==
    \A oc \in mailed : \A x \in behind[oc] : x \in mailed

\* A mail with OC_F_DYING has been put in front of a mail that was queued
\* before it.
C9_DyingOvertook ==
    \E oc \in mailed :
        /\ behind[oc] # {}
        /\ VTAILQ_FIRST(Q, INBOX) = oc
        /\ tqe_next[oc] \in behind[oc]

\* The queues after a step.
QNext == [first |-> tqh_first', last |-> tqh_last', next |-> tqe_next', prev |-> tqe_prev']

\* s without its i-th element.
Without(s, i) == SubSeq(s, 1, i - 1) \o SubSeq(s, i + 1, Len(s))

\* C10: when EXP_NukeOne has gone through the LRU list, it has picked the
\* first objcore from the head that is not busy, has a refcnt of 1 and whose
\* objhead mutex it could lock: that objcore gets OC_F_DYING and OC_F_OFFLRU
\* and one more reference, leaves the list and is mailed at the head of the
\* inbox, and EXP_NukeOne returns 1; no other objcore changes its flags or
\* its place in the list.
C10_NukeHeadMost ==
    [][\A w \in Workers :
        LET scan == VTAILQ_FOREACH(Q, LRU_HEAD)
            Can(oc) == /\ OC_F_BUSY \notin flags[oc]
                       /\ refcnt[oc] = 1
                       /\ oc \notin oh_mtx'
            first == {i \in DOMAIN scan :
                        Can(scan[i]) /\ \A j \in 1..(i - 1) : ~Can(scan[j])}
        IN  /\ (pc[w] = "nuke_cs" /\ pc'[w] # "nuke_cs" /\ first # {}) =>
                \E i \in first :
                    /\ pc'[w] = "mail_lock"
                    /\ w_oc'[w] = scan[i]
                    /\ flags' = [flags EXCEPT ![scan[i]] = @ \cup {OC_F_DYING, OC_F_OFFLRU}]
                    /\ refcnt' = [refcnt EXCEPT ![scan[i]] = 2]
                    /\ VTAILQ_FOREACH(QNext, LRU_HEAD) = Without(scan, i)
                    /\ VTAILQ_FOREACH(QNext, INBOX) = VTAILQ_FOREACH(Q, INBOX)
            /\ (w_op[w] = "NukeOne" /\ pc[w] = "mail_cs" /\ pc'[w] # "mail_cs") =>
                    /\ VTAILQ_FIRST(QNext, INBOX) = w_oc[w]
                    /\ pc'[w] = "nuke_deref"
                    /\ flags' = flags
            /\ (pc[w] = "nuke_deref" /\ pc'[w] # "nuke_deref") =>
                    /\ w_ret'[w] = 1
                    /\ pc'[w] = "ret"]_vars

\* EXP_NukeOne has passed over the objcore at the head of the LRU list and
\* picked the one behind it.
C10_SecondPicked ==
    \E w \in Workers :
        /\ pc[w] = "mail_lock"
        /\ w_op[w] = "NukeOne"
        /\ VTAILQ_FIRST(Q, LRU_HEAD) # NULL
        /\ tqe_prev[w_oc[w]] = VTAILQ_FIRST(Q, LRU_HEAD)

\* A step of EXP_NukeOne's walk of the LRU list by worker w: it leaves the
\* critical section or one of its assertions fails.
NukeStep(w) ==
    /\ pc[w] = "nuke_cs"
    /\ \/ pc'[w] # "nuke_cs"
       \/ failed' \in {"EXP_NukeOne: CHECK_OBJ_NOTNULL(oc, OBJCORE_MAGIC)",
                       "EXP_NukeOne: AZ(oc->flags & OC_F_DYING)"}

\* C11: when no objcore on the LRU list is not busy, has a refcnt of 1 and
\* an objhead mutex that EXP_NukeOne can lock (also when the list is empty),
\* EXP_NukeOne returns -1 and leaves the LRU list, the inbox and the flags
\* and refcnt of every objcore as they were.
C11_NukeNone ==
    [][\A w \in Workers :
        LET scan == VTAILQ_FOREACH(Q, LRU_HEAD)
            Can(oc) == /\ OC_F_BUSY \notin flags[oc]
                       /\ refcnt[oc] = 1
                       /\ oc \notin oh_mtx'
        IN  (NukeStep(w) /\ \A i \in DOMAIN scan : ~Can(scan[i])) =>
                /\ failed' = "none"
                /\ pc'[w] = "ret"
                /\ w_ret'[w] = -1
                /\ QNext = Q
                /\ flags' = flags
                /\ refcnt' = refcnt]_vars

\* EXP_NukeOne has found nothing to nuke on an LRU list that is not empty.
C11_NothingToNuke ==
    \E w \in Workers :
        /\ w_op[w] = "NukeOne"
        /\ pc[w] = "ret"
        /\ w_ret[w] = -1
        /\ VTAILQ_FIRST(Q, LRU_HEAD) # NULL

\* C12: when the LRU list is LRU_F_DONTMOVE or lru->mtx is held by another
\* thread, EXP_Touch returns 0 without waiting and leaves the LRU list, the
\* inbox, the flags of every objcore, lru->mtx and n_lru_moved as they were.
C12_TouchNoOp ==
    [][\A w \in Workers :
        (/\ pc[w] = "idle"
         /\ w_op'[w] = "Touch"
         /\ (LRU_F_DONTMOVE \in lru_flags \/ lru_mtx # FREE)) =>
            /\ pc'[w] = "ret"
            /\ w_ret'[w] = 0
            /\ QNext = Q
            /\ flags' = flags
            /\ lru_mtx' = lru_mtx
            /\ n_lru_moved' = n_lru_moved]_vars

\* EXP_Touch has returned 0 because exp_thread held lru->mtx.
C12_TrylockFailed ==
    \E w \in Workers :
        /\ w_op[w] = "Touch"
        /\ pc[w] = "ret"
        /\ w_ret[w] = 0
        /\ LRU_F_DONTMOVE \notin lru_flags
        /\ lru_mtx = EXP_THREAD

\* The step in which EXP_Touch, holding lru->mtx, returns.
TouchReturns(w) == pc[w] = "touch_cs" /\ pc'[w] # "touch_cs"

\* C13 as stated: EXP_Touch returns a value that is not 0 exactly when it
\* has moved the objcore to the tail of the LRU list.
C13_ReturnsMoved ==
    [][\A w \in Workers :
        TouchReturns(w) =>
            (w_ret'[w] # 0 <=> n_lru_moved' = n_lru_moved + 1)]_vars

\* C13: EXP_Touch returns 1 whenever it got lru->mtx; it moves the objcore
\* to the tail of the LRU list and counts the move exactly when OC_F_OFFLRU
\* is clear, and with OC_F_OFFLRU set it changes neither list nor counter
\* and still returns 1.
C13_ReturnsLocked ==
    [][\A w \in Workers :
        TouchReturns(w) =>
            /\ w_ret'[w] = 1
            /\ pc'[w] = "ret"
            /\ flags' = flags
            /\ IF OC_F_OFFLRU \in flags[w_oc[w]]
               THEN /\ QNext = Q
                    /\ n_lru_moved' = n_lru_moved
               ELSE /\ tqh_last'[LRU_HEAD] = w_oc[w]
                    /\ tqe_next'[w_oc[w]] = NULL
                    /\ n_lru_moved' = n_lru_moved + 1]_vars

\* EXP_Touch has returned 1 for an objcore that waits in the inbox, and
\* nothing has been moved.
C13_TouchedOffLru ==
    \E w \in Workers :
        /\ w_op[w] = "Touch"
        /\ pc[w] = "ret"
        /\ w_ret[w] = 1
        /\ OC_F_OFFLRU \in flags[w_oc[w]]
        /\ w_oc[w] \in mailed
        /\ n_lru_moved = 0

\* A step of exp_expire: the part before Lck_Lock(&lru->mtx) or the part
\* under the lock and after it.
ExpireStep ==
    /\ apc \in {"expire", "expire_cs"}
    /\ \/ apc' # apc
       \/ failed' # failed

\* C14: an objcore that is OC_F_BUSY is not retired.  exp_expire with a busy
\* root that is due changes nothing (flags, refcnt, heap, LRU list, inbox,
\* n_expired) and returns t + EXPIRE_BUSY.  No step of exp_expire or of
\* EXP_NukeOne's walk changes the flags or the refcnt of a busy objcore,
\* takes it out of the heap or calls HSH_DerefObjCore on it.  The objcore
\* exp_expire takes lru->mtx for and unlinks, and the one EXP_NukeOne picks
\* and unlinks, is never busy.
C14_BusyNotRetired ==
    /\ [][(/\ apc = "expire"
           /\ apc' # apc
           /\ binheap_root(heap) # NULL
           /\ OC_F_BUSY \in flags[binheap_root(heap)]
           /\ ExpireReady(binheap_root(heap), t)) =>
                /\ tnext' = t + EXPIRE_BUSY
                /\ apc' = "top"
                /\ n_expired' = n_expired
                /\ flags' = flags
                /\ refcnt' = refcnt
                /\ heap' = heap
                /\ n_deref' = n_deref
                /\ QNext = Q]_vars
    /\ [][(ExpireStep \/ \E w \in Workers : NukeStep(w)) =>
            \A oc \in OC : OC_F_BUSY \in flags[oc] =>
                /\ flags'[oc] = flags[oc]
                /\ refcnt'[oc] = refcnt[oc]
                /\ n_deref'[oc] = n_deref[oc]
                /\ n_heapdel'[oc] = n_heapdel[oc]
                /\ (oc \in Range(heap')) <=> (oc \in Range(heap))]_vars
    /\ [](apc \in {"expire_lock", "expire_cs"} => OC_F_BUSY \notin flags[a_oc])
    /\ [](\A w \in Workers :
            (w_op[w] = "NukeOne" /\ pc[w] \in {"mail_lock", "mail_cs", "nuke_deref"}) =>
                OC_F_BUSY \notin flags[w_oc[w]])

\* exp_expire has found a busy objcore that is due at the root of the heap
\* and has gone back to the top of the loop with tnext = t + EXPIRE_BUSY,
\* while an EXP_NukeOne has walked past the same objcore on the LRU list.
C14_BusyLeftAlone ==
    /\ apc = "top"
    /\ binheap_root(heap) # NULL
    /\ OC_F_BUSY \in flags[binheap_root(heap)]
    /\ ExpireReady(binheap_root(heap), t)
    /\ tnext = t + EXPIRE_BUSY
    /\ OnLru(binheap_root(heap))
    /\ \E w \in Workers : w_op[w] = "NukeOne" /\ pc[w] = "ret" /\ w_ret[w] = -1

\* The heap property: no objcore is due before its parent.
HeapOrdered(h, tw) ==
    \A i \in 2..Len(h) : ~object_cmp(tw, h[i], h[i \div 2])

\* C15: when exp_expire looks at the root of the heap, no objcore in the heap
\* has a timer_when below the root's, and the heap property holds in every
\* state.  The timer_when of an objcore that is and stays in the heap changes
\* only in exp_inbox's handling of a mail with OC_F_MOVE for that objcore,
\* which leaves the heap ordered, and in no step of a worker.
C15_HeapOrder ==
    /\ [](apc = "expire" =>
            \A oc \in Range(heap) : timer_when[binheap_root(heap)] <= timer_when[oc])
    /\ [](HeapOrdered(heap, timer_when))
    /\ [][\A oc \in Range(heap) \cap Range(heap') :
            timer_when'[oc] # timer_when[oc] =>
                /\ apc = "inbox_heap"
                /\ a_oc = oc
                /\ OC_F_MOVE \in a_flags
                /\ timer_when'[oc] = exp_when(exp[oc])
                /\ HeapOrdered(heap', timer_when')
                /\ pc' = pc]_vars

\* exp_expire is about to look at the root of a heap of three objcores whose
\* root is objcore 1: exp_inbox has moved it there with binheap_reorder.
C15_RootAfterMove ==
    /\ apc = "expire"
    /\ Len(heap) = 3
    /\ binheap_root(heap) = 1
    /\ timer_when[1] < timer_when[2]

\* exp_expire leaves its part under lru->mtx without a failed assertion.
ExpireDone ==
    /\ apc = "expire_cs"
    /\ apc' # apc
    /\ failed' = failed

\* C16 as stated: n_expired is incremented once for each objcore exp_expire
\* itself removes from the heap and for no other, so that every exp_expire
\* that has incremented n_expired ends with the removal of its objcore from
\* the heap, also when it finds that EXP_Rearm or EXP_NukeOne was first.
C16_ChargedIsRetired ==
    /\ [][n_expired' # n_expired => apc = "expire" /\ apc' = "expire_lock"]_vars
    /\ [][ExpireDone => a_oc \notin Range(heap')]_vars

\* C16 as amended: n_expired is incremented by exp_expire only, once for
\* each due objcore that is not busy, before lru->mtx is taken (counted up to
\* MaxExpired).  The exp_expire that has incremented it then either removes
\* the objcore from the heap, or finds OC_F_OFFLRU, leaves the heap as it is
\* and returns t + EXPIRE_YIELD; n_expired is not decremented.  exp_inbox
\* does not change it.
C16_ChargedBeforeLock ==
    /\ [][n_expired' # n_expired => apc = "expire" /\ apc' = "expire_lock"]_vars
    /\ [][(apc = "expire" /\ apc' = "expire_lock") =>
            /\ n_expired' = (IF n_expired < MaxExpired THEN n_expired + 1 ELSE n_expired)
            /\ a_oc' = binheap_root(heap)
            /\ heap' = heap]_vars
    /\ [][ExpireDone =>
            /\ n_expired' = n_expired
            /\ IF OC_F_OFFLRU \in flags[a_oc]
               THEN /\ heap' = heap
                    /\ n_heapdel' = n_heapdel
                    /\ tnext' = t + EXPIRE_YIELD
               ELSE /\ a_oc \notin Range(heap')
                    /\ n_heapdel' = [n_heapdel EXCEPT ![a_oc] = @ + 1]
                    /\ tnext' = 0]_vars

\* n_expired has been incremented twice and no objcore has left the heap:
\* exp_expire has found OC_F_OFFLRU on the root both times.
C16_ChargedTwice ==
    /\ n_expired = 2
    /\ \A oc \in OC : n_heapdel[oc] = 0
    /\ apc = "top"
    /\ tnext = t + EXPIRE_YIELD

\* How many times oc is in the heap.
InHeap(h, oc) == Cardinality({i \in DOMAIN h : h[i] = oc})

\* C17: an EXP_Rearm that finds its objcore OC_F_OFFLRU sends no mail.  When
\* exp_inbox handles a mail of an objcore in the heap that EXP_Rearm has
\* marked OC_F_MOVE and neither a negative EXP_Rearm nor EXP_NukeOne has
\* marked OC_F_DYING, it sets timer_when to exp_when(o) as it is then and
\* reorders the heap: the objcore is in the heap once, with that timer_when,
\* and its reference is not dropped.  No objcore is in the heap twice and
\* none is released twice.
C17_RearmedOnce ==
    /\ [][\A w \in Workers :
            (/\ pc[w] = "rearm_cs"
             /\ pc'[w] # pc[w]
             /\ OC_F_OFFLRU \in flags[w_oc[w]]) =>
                /\ pc'[w] = "idle"
                /\ QNext = Q
                /\ mailed' = mailed]_vars
    /\ [][(/\ apc = "inbox_heap"
           /\ apc' # apc
           /\ OC_F_MOVE \in a_flags
           /\ OC_F_INSERT \notin a_flags
           /\ OC_F_DYING \notin a_flags \/ a_oc \in rearm_won) =>
                /\ timer_when'[a_oc] = exp_when(exp[a_oc])
                /\ InHeap(heap', a_oc) = 1
                /\ HeapOrdered(heap', timer_when')
                /\ n_deref' = n_deref]_vars
    /\ [](\A oc \in OC : InHeap(heap, oc) <= 1 /\ n_deref[oc] <= 1)

\* The mails in the inbox, from its head.
InboxSeq(q) == VTAILQ_FOREACH(q, INBOX)

C19_LoopOrder ==
    /\ [][(apc = "locked" /\ apc' # apc) =>
            IF VTAILQ_FIRST(Q, INBOX) # NULL
            THEN /\ apc' = "inbox_lock"
                 /\ a_oc' = VTAILQ_FIRST(Q, INBOX)
                 /\ tnext' = 0
            ELSE /\ a_oc' = NULL
                 /\ tnext' = tnext
                 /\ apc' = (IF tnext > t THEN "wait" ELSE "expire")]_vars
    /\ [][(apc' = "wait" /\ apc # "wait") =>
            /\ apc = "locked"
            /\ VTAILQ_FIRST(Q, INBOX) = NULL
            /\ tnext > t]_vars
    /\ [][tnext' # tnext =>
            \/ apc = "locked" /\ apc' = "inbox_lock" /\ tnext' = 0
            \/ apc \in {"expire", "expire_cs"}]_vars
    /\ [][(apc = "wait" /\ apc' # apc) => apc' = "expire"]_vars
    /\ [][(apc \in {"inbox_heap", "expire", "expire_cs"} /\ apc' # apc) =>
            apc' \in {"top", "expire_lock"}]_vars
    /\ [](apc \in {"inbox_lock", "inbox_cs", "inbox_heap"} => a_oc # NULL /\ tnext = 0)
    /\ [](apc \in {"wait", "expire"} => a_oc = NULL)
    /\ [](apc = "wait" => tnext > t)
    /\ [](t >= 0)

\* exp_thread waits on the condition variable for the wake time of the root
\* of the heap: it has handled a mail, found the inbox empty, run exp_expire
\* and found the inbox empty again.
C19_WaitsForRoot ==
    /\ apc = "wait"
    /\ heap # <<>>
    /\ tnext = timer_when[binheap_root(heap)]
    /\ tnext > t
    /\ VTAILQ_FIRST(Q, INBOX) = NULL

\* Worker w calls EXP_Rearm: a call that is neither EXP_Touch nor
\* EXP_NukeOne.
RearmCalled(w) ==
    /\ pc[w] = "idle"
    /\ budget' = budget - 1
    /\ w_op'[w] \notin {"Touch", "NukeOne"}

\* C20: an EXP_Rearm that finds oc->timer_when equal to the wake time it has
\* computed, or an object without objcore, returns at once: it goes on to
\* lru->mtx only with a wake time that differs, and otherwise sets no flag,
\* unlinks and mails nothing, takes no mutex and leaves timer_when, the heap
\* and the refcnt alone.
C20_RearmNoOp ==
    [][\A w \in Workers : RearmCalled(w) =>
        IF w_op'[w] = "Rearm"
        THEN /\ pc'[w] = "rearm_lock"
             /\ timer_when[w_oc'[w]] # exp_when(exp'[w_oc'[w]])
        ELSE /\ pc' = pc
             /\ flags' = flags
             /\ QNext = Q
             /\ mailed' = mailed
             /\ lru_mtx' = lru_mtx
             /\ exp_mtx' = exp_mtx
             /\ timer_when' = timer_when
             /\ heap' = heap
             /\ refcnt' = refcnt
             /\ \A oc \in OC : exp'[oc] # exp[oc] =>
                    timer_when[oc] = exp_when(exp'[oc])]_vars

\* Two calls after InboxInit: a worker has set the ttl of objcore 2 to 1 and
\* called EXP_Rearm, which has marked it OC_F_MOVE; before exp_thread has
\* handled the mail, the worker has set the ttl back to 0 and called
\* EXP_Rearm again, which has found the wake time oc->timer_when still has
\* and has returned at once.
C20_SameWhen ==
    /\ budget = MaxCallsInbox - 2
    /\ \A w \in Workers : pc[w] = "idle"
    /\ {OC_F_MOVE, OC_F_OFFLRU} \subseteq flags[2]
    /\ OC_F_DYING \notin flags[2]
    /\ exp[2].ttl = 0
    /\ timer_when[2] = exp_when(exp[2])

\* C21: no objcore with OC_F_DYING is linked in the LRU list.  OC_F_DYING
\* stays set as long as the objcore lives, an objcore that has it is not on
\* the LRU list, and EXP_NukeOne's AZ(oc->flags & OC_F_DYING) on the
\* objcores it walks over never fails.
C21_NoDyingOnLru ==
    /\ [](\A oc \in OC : OC_F_DYING \in flags[oc] => ~OnLru(oc))
    /\ [](failed # "EXP_NukeOne: AZ(oc->flags & OC_F_DYING)")
    /\ [][\A oc \in OC :
            (OC_F_DYING \in flags[oc] /\ oc_state'[oc] # "freed") =>
                OC_F_DYING \in flags'[oc]]_vars

\* EXP_NukeOne has marked an objcore OC_F_DYING, unlinked it from the LRU
\* list under the same hold of lru->mtx and mailed it.
C21_NukedOffLru ==
    \E oc \in mailed :
        /\ {OC_F_DYING, OC_F_OFFLRU} \subseteq flags[oc]
        /\ ~OnLru(oc)
        /\ n_lru_nuked = 1
        /\ VTAILQ_FIRST(Q, LRU_HEAD) # NULL

\* The threads: the workers and the exp_thread.
Threads == Workers \cup {EXP_THREAD}

\* thr is in Lck_Lock on a mutex that another thread holds.
Blocked(thr) ==
    IF thr = EXP_THREAD
    THEN \/ apc = "top" /\ exp_mtx # FREE
         \/ apc \in {"inbox_lock", "expire_lock"} /\ lru_mtx # FREE
    ELSE \/ pc[thr] \in {"insert_lock", "rearm_lock", "nuke_lock"} /\ lru_mtx # FREE
         \/ pc[thr] = "mail_lock" /\ exp_mtx # FREE

\* C22: no thread holds lru->mtx and exphdl->mtx at the same time, a thread
\* that holds a mutex is inside the critical section of that mutex and not
\* in a Lck_Lock, and so the threads are never all blocked on mutexes.
C22_NoDeadlock ==
    /\ \A thr \in Threads : ~(lru_mtx = thr /\ exp_mtx = thr)
    /\ lru_mtx \in Threads => ~Blocked(lru_mtx)
    /\ exp_mtx \in Threads => ~Blocked(exp_mtx)
    /\ \A w \in Workers :
        /\ lru_mtx = w <=> pc[w] \in {"insert_cs", "touch_cs", "rearm_cs", "nuke_cs"}
        /\ exp_mtx = w <=> pc[w] = "mail_cs"
    /\ lru_mtx = EXP_THREAD <=> apc \in {"inbox_cs", "expire_cs"}
    /\ exp_mtx = EXP_THREAD <=> apc = "locked"
    /\ \E thr \in Threads : ~Blocked(thr)

\* The worker is in Lck_Lock(&exphdl->mtx) of exp_mail_it while exp_thread
\* holds that mutex, and lru->mtx is free: the worker has released it
\* before mailing.
C22_WaitsForInbox ==
    \E w \in Workers :
        /\ Blocked(w)
        /\ pc[w] = "mail_lock"
        /\ exp_mtx = EXP_THREAD
        /\ lru_mtx = FREE
        /\ w_op[w] = "NukeOne"
====
